---- MODULE Spec2Model ----
(***************************************************************************)
(* ACL reconciliation core of the peer agent: client/internal/acl/         *)
(* manager.go.  DefaultManager.ApplyFiltering turns a network map into     *)
(* firewall-backend calls; squashAcceptRules collapses per-peer ACCEPT     *)
(* rules into wildcard rules; getRuleID gives every rule its identity.     *)
(***************************************************************************)
EXTENDS Integers, Sequences, FiniteSets, TLC

VARIABLES
    firewall,      \* DefaultManager.firewall: TRUE when a backend is present, FALSE for nil
    rulesPairs,    \* DefaultManager.rulesPairs: RuleID -> sequence of backend rule handles
    ipsetCounter,  \* DefaultManager.ipsetCounter
    fwRules,       \* backend: the rule handles accepted by AddFiltering and not yet deleted
    nextHandle,    \* backend: the number of handles handed out so far
    calls,         \* number of ApplyFiltering calls made
    last,          \* record of the last ApplyFiltering call (its argument, its backend calls)
    input,         \* argument of a pure-function run (squashAcceptRules and what follows it)
    output,        \* the result of that run
    mutex,         \* DefaultManager.mutex: the goroutine that holds it, NoHolder when unlocked
    goroutine,     \* the concurrent ApplyFiltering calls: each one's position and locals
    trace          \* the steps those calls have taken on the manager, in order

vars == <<firewall, rulesPairs, ipsetCounter, fwRules, nextHandle, calls, last, input, output,
          mutex, goroutine, trace>>

(***************************************************************************)
(* Rule model: the enumerations of mgmProto.FirewallRule and of the        *)
(* firewall manager package.                                               *)
(***************************************************************************)
FirewallRule_IN == "IN"
FirewallRule_OUT == "OUT"
FirewallRule_ACCEPT == "ACCEPT"
FirewallRule_DROP == "DROP"
FirewallRule_UNKNOWN == "UNKNOWN"
FirewallRule_ALL == "ALL"
FirewallRule_TCP == "TCP"
FirewallRule_UDP == "UDP"
FirewallRule_ICMP == "ICMP"

\* The wildcard peer IP text: "all peers".
WildcardIP == "0.0.0.0"

\* A value no call has produced yet.
None == "none"

\* Go's nil for a net.IP.
NilIP == "<nil>"

\* A *firewall.Port is the sequence of its Values; nil is the empty one.
NilPort == <<>>

\* mgmProto.FirewallRule
FirewallRule(peerIP, direction, action, protocol, port) ==
    [PeerIP |-> peerIP, Direction |-> direction, Action |-> action,
     Protocol |-> protocol, Port |-> port]

\* An empty Go map.
EmptyMap == [x \in {} |-> 0]

\* m[k] = v on a Go map.
MapPut(m, k, v) == [x \in (DOMAIN m) \cup {k} |-> IF x = k THEN v ELSE m[x]]

\* v := m[k] on a Go map of ints: the zero value 0 when k is absent.
MapGetInt(m, k) == IF k \in DOMAIN m THEN m[k] ELSE 0

(***************************************************************************)
(* Protocol translator                                                     *)
(***************************************************************************)
\* net.ParseIP followed by IP.String(): the canonical text of a peer IP, NilIP
\* when the text is no IP address.  An IPv4-mapped IPv6 text parses to the same
\* address as its dotted form.
ParseIP(s) ==
    CASE s = "10.0.0.1" -> "10.0.0.1"
      [] s = "10.0.0.2" -> "10.0.0.2"
      [] s = "10.0.0.3" -> "10.0.0.3"
      [] s = "0.0.0.0" -> "0.0.0.0"
      [] s = "::ffff:10.0.0.1" -> "10.0.0.1"
      [] OTHER -> NilIP

\* strconv.Atoi on a port text: -1 stands for the error return.
Atoi(s) ==
    CASE s = "80" -> 80
      [] s = "080" -> 80
      [] s = "22" -> 22
      [] s = "443" -> 443
      [] OTHER -> -1

\* strconv.Itoa
Itoa(n) == ToString(n)

\* convertToFirewallProtocol: the firewall.Protocol string, None for the error.
convertToFirewallProtocol(protocol) ==
    CASE protocol = FirewallRule_TCP -> "tcp"
      [] protocol = FirewallRule_UDP -> "udp"
      [] protocol = FirewallRule_ICMP -> "icmp"
      [] protocol = FirewallRule_ALL -> "all"
      [] OTHER -> None

\* convertFirewallAction: firewall.ActionAccept (0), firewall.ActionDrop (1), -1 for
\* the error.
convertFirewallAction(action) ==
    CASE action = FirewallRule_ACCEPT -> 0
      [] action = FirewallRule_DROP -> 1
      [] OTHER -> -1

\* int(r.Direction): the wire value of the direction enumeration.
DirectionInt(direction) ==
    CASE direction = FirewallRule_IN -> 0
      [] direction = FirewallRule_OUT -> 1
      [] OTHER -> 2

\* The *firewall.Port built from r.Port: nil for the empty text, else
\* &firewall.Port{Values: []int{value}}.
ParsePort(portText) == IF portText = "" THEN NilPort ELSE <<Atoi(portText)>>

\* strconv.Atoi(r.Port) fails on a non-empty port text.
InvalidPort(portText) == portText # "" /\ Atoi(portText) = -1

\* firewall.Port.String() of a port with one value.
PortString(port) == Itoa(port[1])

(***************************************************************************)
(* Identity and grouping                                                   *)
(***************************************************************************)
\* md5.New().Sum(b) appends the digest of the empty input to b.
EmptyMD5 == "d41d8cd98f00b204e9800998ecf8427e"

\* getRuleID: hex(idStr ++ md5("")).  The hex encoding is per byte and injective,
\* so the identifier is kept as idStr followed by the digest text.
getRuleID(ip, proto, direction, port, action, comment) ==
    LET idStr == ip \o proto \o Itoa(direction) \o Itoa(action) \o comment
        full == IF port # NilPort THEN idStr \o PortString(port) ELSE idStr
    IN  full \o EmptyMD5

\* getRuleGroupingSelector without the port.
getRuleGroupingSelector_NoPort(rule) ==
    Itoa(DirectionInt(rule.Direction)) \o ":" \o rule.Action \o ":" \o rule.Protocol

\* getRuleGroupingSelector: "direction:action:protocol:port", the direction as its
\* number, the action and the protocol by name, the port as the rule gives it.
getRuleGroupingSelector(rule) ==
    Itoa(DirectionInt(rule.Direction)) \o ":" \o rule.Action \o ":"
        \o rule.Protocol \o ":" \o rule.Port

\* fmt.Sprintf("nb%07d", n): the decimal digits of n, zero-padded on the left to
\* seven digits (a longer number is printed in full).
IpsetName(n) ==
    LET digits == Itoa(n)
        pad == [k \in 0..7 |-> SubSeq("0000000", 1, k)]
    IN  "nb" \o (IF Len(digits) >= 7 THEN digits ELSE pad[7 - Len(digits)] \o digits)

(***************************************************************************)
(* Squasher                                                                *)
(***************************************************************************)
RECURSIVE CountAllowedIps(_)
\* totalIPs: one per AllowedIps entry of every peer of the list.
CountAllowedIps(peers) ==
    IF peers = <<>> THEN 0
    ELSE Len(Head(peers).AllowedIps) + CountAllowedIps(Tail(peers))

TotalIPs(networkMap) == CountAllowedIps(networkMap.RemotePeers \o networkMap.OfflinePeers)

\* The closure addRuleToCalculationMap(i, r, protocols): `which` names the map it is
\* given ("in" or "out"); acc holds both maps, squashedRules and squashedProtocols.
addRuleToCalculationMap(i, r, which, acc) ==
    LET protocols == acc[which]
        drop == r.Action = FirewallRule_DROP \/ r.Port # ""
    IN  IF drop
        THEN [acc EXCEPT ![which] = MapPut(protocols, r.Protocol, EmptyMap)]
        ELSE LET present == IF r.Protocol \in DOMAIN protocols
                            THEN protocols
                            ELSE MapPut(protocols, r.Protocol, EmptyMap)
                 ipset == present[r.Protocol]
             IN  IF r.PeerIP = WildcardIP
                 THEN [acc EXCEPT ![which] = present,
                                  !.squashedRules = Append(@, r),
                                  !.squashedProtocols = @ \cup {r.Protocol}]
                 ELSE IF r.PeerIP \in DOMAIN ipset
                 THEN [acc EXCEPT ![which] = present]
                 ELSE [acc EXCEPT ![which] =
                          MapPut(present, r.Protocol, MapPut(ipset, r.PeerIP, i))]

RECURSIVE CalculationLoop(_, _, _)
\* for i, r := range networkMap.FirewallRules: k is the 1-based position, i = k - 1.
CalculationLoop(rules, k, acc) ==
    IF k > Len(rules) THEN acc
    ELSE LET r == rules[k]
             which == IF r.Direction = FirewallRule_IN THEN "in" ELSE "out"
         IN  CalculationLoop(rules, k + 1, addRuleToCalculationMap(k - 1, r, which, acc))

protocolOrders == <<FirewallRule_ALL, FirewallRule_ICMP, FirewallRule_TCP, FirewallRule_UDP>>

\* The test of the closure squash: the protocol's rules cover every peer IP of the
\* network and more than one.
CanSquash(matches, protocol, totalIPs) ==
    /\ protocol \in DOMAIN matches
    /\ Cardinality(DOMAIN matches[protocol]) = totalIPs
    /\ Cardinality(DOMAIN matches[protocol]) >= 2

RECURSIVE SquashFrom(_, _, _)
\* The closure squash from position k of protocolOrders: the protocols it squashes,
\* in order; it stops after ALL.
SquashFrom(matches, totalIPs, k) ==
    IF k > Len(protocolOrders) THEN <<>>
    ELSE LET protocol == protocolOrders[k]
         IN  IF ~CanSquash(matches, protocol, totalIPs)
             THEN SquashFrom(matches, totalIPs, k + 1)
             ELSE IF protocol = FirewallRule_ALL
             THEN <<protocol>>
             ELSE <<protocol>> \o SquashFrom(matches, totalIPs, k + 1)

\* squash(matches, direction): the synthetic 0.0.0.0 rules it appends to squashedRules.
squash(matches, direction, totalIPs) ==
    LET ps == SquashFrom(matches, totalIPs, 1)
    IN  [k \in 1..Len(ps) |->
            FirewallRule(WildcardIP, direction, FirewallRule_ACCEPT, ps[k], "")]

RECURSIVE FilterSquashed(_, _, _, _, _)
\* The final loop of squashAcceptRules: the rules kept, from position k on.
FilterSquashed(rules, k, squashedProtocols, in, out) ==
    IF k > Len(rules) THEN <<>>
    ELSE LET r == rules[k]
             i == k - 1
             skip == /\ r.Protocol \in squashedProtocols
                     /\ \/ r.Protocol \in DOMAIN in
                           /\ MapGetInt(in[r.Protocol], r.PeerIP) = i
                        \/ r.Protocol \in DOMAIN out
                           /\ MapGetInt(out[r.Protocol], r.PeerIP) = i
             rest == FilterSquashed(rules, k + 1, squashedProtocols, in, out)
         IN  IF skip THEN rest ELSE <<r>> \o rest

\* The state of squashAcceptRules after squash(in) and squash(out): the two maps,
\* the wildcard rules passed through, the synthetic rules of each direction.
SquashState(networkMap) ==
    LET totalIPs == TotalIPs(networkMap)
        acc == CalculationLoop(networkMap.FirewallRules, 1,
                   [in |-> EmptyMap, out |-> EmptyMap,
                    squashedRules |-> <<>>, squashedProtocols |-> {}])
        synIn == squash(acc.in, FirewallRule_IN, totalIPs)
        synOut == squash(acc.out, FirewallRule_OUT, totalIPs)
    IN  [in |-> acc.in, out |-> acc.out,
         passed |-> acc.squashedRules,
         synthetic |-> synIn \o synOut,
         squashedRules |-> acc.squashedRules \o synIn \o synOut,
         squashedProtocols |-> acc.squashedProtocols
             \cup {synIn[k].Protocol : k \in 1..Len(synIn)}
             \cup {synOut[k].Protocol : k \in 1..Len(synOut)}]

\* squashAcceptRules: the effective rules and the set of squashed protocols.
squashAcceptRules(networkMap) ==
    LET s == SquashState(networkMap)
    IN  IF FirewallRule_ALL \in s.squashedProtocols
        THEN [rules |-> s.squashedRules, squashedProtocols |-> s.squashedProtocols]
        ELSE IF Len(s.squashedRules) = 0
        THEN [rules |-> networkMap.FirewallRules, squashedProtocols |-> s.squashedProtocols]
        ELSE [rules |-> FilterSquashed(networkMap.FirewallRules, 1,
                            s.squashedProtocols, s.in, s.out) \o s.squashedRules,
              squashedProtocols |-> s.squashedProtocols]

(***************************************************************************)
(* Rules injected by the reconciler                                        *)
(***************************************************************************)
\* ssh.DefaultSSHPort
DefaultSSHPort == 22

\* EffectiveRules with the SSH fallback suppressed only by a squashed TCP, not by a
\* squashed ALL.
EffectiveRules_SSHIgnoresALL(networkMap) ==
    LET sq == squashAcceptRules(networkMap)
        enableSSH == /\ networkMap.SshEnabled
                     /\ FirewallRule_TCP \notin sq.squashedProtocols
        withSSH == IF enableSSH
                   THEN Append(sq.rules,
                            FirewallRule(WildcardIP, FirewallRule_IN, FirewallRule_ACCEPT,
                                         FirewallRule_TCP, Itoa(DefaultSSHPort)))
                   ELSE sq.rules
    IN  IF Len(networkMap.FirewallRules) = 0 /\ ~networkMap.FirewallRulesIsEmpty
        THEN withSSH \o
             <<FirewallRule(WildcardIP, FirewallRule_IN, FirewallRule_ACCEPT, FirewallRule_ALL, ""),
               FirewallRule(WildcardIP, FirewallRule_OUT, FirewallRule_ACCEPT, FirewallRule_ALL, "")>>
        ELSE withSSH

\* EffectiveRules with the allow-all rules appended for every empty rule list,
\* whatever FirewallRulesIsEmpty says.
EffectiveRules_LegacyIgnoresFlag(networkMap) ==
    LET sq == squashAcceptRules(networkMap)
        enableSSH == /\ networkMap.SshEnabled
                     /\ FirewallRule_ALL \notin sq.squashedProtocols
                     /\ FirewallRule_TCP \notin sq.squashedProtocols
        withSSH == IF enableSSH
                   THEN Append(sq.rules,
                            FirewallRule(WildcardIP, FirewallRule_IN, FirewallRule_ACCEPT,
                                         FirewallRule_TCP, Itoa(DefaultSSHPort)))
                   ELSE sq.rules
    IN  IF Len(networkMap.FirewallRules) = 0
        THEN withSSH \o
             <<FirewallRule(WildcardIP, FirewallRule_IN, FirewallRule_ACCEPT, FirewallRule_ALL, ""),
               FirewallRule(WildcardIP, FirewallRule_OUT, FirewallRule_ACCEPT, FirewallRule_ALL, "")>>
        ELSE withSSH

\* ApplyFiltering up to the install loop: the squashed rules, then the SSH fallback
\* rule, then the two allow-all rules for a management service that sends no rules
\* and does not set FirewallRulesIsEmpty.
EffectiveRules(networkMap) ==
    LET sq == squashAcceptRules(networkMap)
        enableSSH == /\ networkMap.SshEnabled
                     /\ FirewallRule_ALL \notin sq.squashedProtocols
                     /\ FirewallRule_TCP \notin sq.squashedProtocols
        withSSH == IF enableSSH
                   THEN Append(sq.rules,
                            FirewallRule(WildcardIP, FirewallRule_IN, FirewallRule_ACCEPT,
                                         FirewallRule_TCP, Itoa(DefaultSSHPort)))
                   ELSE sq.rules
    IN  IF Len(networkMap.FirewallRules) = 0 /\ ~networkMap.FirewallRulesIsEmpty
        THEN withSSH \o
             <<FirewallRule(WildcardIP, FirewallRule_IN, FirewallRule_ACCEPT, FirewallRule_ALL, ""),
               FirewallRule(WildcardIP, FirewallRule_OUT, FirewallRule_ACCEPT, FirewallRule_ALL, "")>>
        ELSE withSSH

(***************************************************************************)
(* Firewall backend (firewall.Manager): AddFiltering, DeleteRule, Flush.   *)
(* A call state st carries the manager's fields, the backend's rules and   *)
(* the backend calls made so far by the running ApplyFiltering.            *)
(***************************************************************************)
\* One more DeleteRule call for handle h in the bag of calls.
BagAdd(b, h) == [x \in (DOMAIN b) \cup {h} |-> IF x = h THEN MapGetInt(b, h) + 1 ELSE b[x]]

\* firewall.AddFiltering: the failAt-th call of this ApplyFiltering returns an error
\* (failAt = 0: none does); any other call returns one fresh rule handle.
AddFiltering(st, ip, protocol, sPort, dPort, direction, action, ipsetName, failAt) ==
    LET n == Len(st.addCalls) + 1
        ok == n # failAt
        call == [ip |-> ip, protocol |-> protocol, sPort |-> sPort, dPort |-> dPort,
                 direction |-> direction, action |-> action, ipsetName |-> ipsetName,
                 ok |-> ok]
        h == st.nextHandle + 1
    IN  IF ok
        THEN [st |-> [st EXCEPT !.addCalls = Append(@, call),
                                !.events = Append(@, "AddFiltering"),
                                !.nextHandle = h,
                                !.fwRules = @ \cup {h}],
              rule |-> <<h>>, err |-> FALSE]
        ELSE [st |-> [st EXCEPT !.addCalls = Append(@, call),
                                !.events = Append(@, "AddFiltering"),
                                !.addFailed = TRUE],
              rule |-> <<>>, err |-> TRUE]

\* firewall.DeleteRule: the rule leaves the backend (an unknown handle is an error,
\* which the callers log).
DeleteRule(st, h) ==
    [st EXCEPT !.fwRules = @ \ {h}, !.delCalls = BagAdd(@, h),
               !.events = Append(@, "DeleteRule")]

RECURSIVE DeleteRules(_, _, _)
\* for _, rule := range rules { DeleteRule(rule) }, from position k on.
DeleteRules(st, rules, k) ==
    IF k > Len(rules) THEN st
    ELSE DeleteRules(DeleteRule(st, rules[k]), rules, k + 1)

RECURSIVE DeletePairs(_, _, _)
\* DeleteRule on every handle of the pairs stored under `keys` (a Go map is walked
\* in no fixed order; the resulting state does not depend on it).
DeletePairs(st, pairs, keys) ==
    IF keys = {} THEN st
    ELSE LET id == CHOOSE x \in keys : TRUE
         IN  DeletePairs(DeleteRules(st, pairs[id], 1), pairs, keys \ {id})

(***************************************************************************)
(* Reconciler                                                              *)
(***************************************************************************)
\* shouldSkipInvertedRule looking at the port alone.
shouldSkipInvertedRule_PortOnly(protocol, port) == port = NilPort

\* shouldSkipInvertedRule: no companion for ALL, for ICMP, and without a port.
shouldSkipInvertedRule(protocol, port) ==
    protocol = "all" \/ protocol = "icmp" \/ port = NilPort

\* addInRules without `rules = append(rules, rule...)` after the first AddFiltering:
\* a rule that needs no companion comes back with no handle.
addInRules_ForgetsPrimary(st, ip, protocol, port, action, ipsetName, failAt) ==
    LET a == AddFiltering(st, ip, protocol, NilPort, port, FirewallRule_IN, action,
                          ipsetName, failAt)
    IN  IF a.err THEN [st |-> a.st, rules |-> <<>>, err |-> TRUE]
        ELSE IF shouldSkipInvertedRule(protocol, port)
        THEN [st |-> a.st, rules |-> <<>>, err |-> FALSE]
        ELSE LET b == AddFiltering(a.st, ip, protocol, port, NilPort, FirewallRule_OUT,
                                   action, ipsetName, failAt)
             IN  IF b.err THEN [st |-> b.st, rules |-> <<>>, err |-> TRUE]
                 ELSE [st |-> b.st, rules |-> b.rule, err |-> FALSE]

\* addInRules: the IN rule, then its OUT companion with the port as source port.
addInRules(st, ip, protocol, port, action, ipsetName, failAt) ==
    LET a == AddFiltering(st, ip, protocol, NilPort, port, FirewallRule_IN, action,
                          ipsetName, failAt)
    IN  IF a.err THEN [st |-> a.st, rules |-> <<>>, err |-> TRUE]
        ELSE IF shouldSkipInvertedRule(protocol, port)
        THEN [st |-> a.st, rules |-> a.rule, err |-> FALSE]
        ELSE LET b == AddFiltering(a.st, ip, protocol, port, NilPort, FirewallRule_OUT,
                                   action, ipsetName, failAt)
             IN  IF b.err THEN [st |-> b.st, rules |-> <<>>, err |-> TRUE]
                 ELSE [st |-> b.st, rules |-> a.rule \o b.rule, err |-> FALSE]

\* addOutRules: the OUT rule, then its IN companion with the port as source port.
addOutRules(st, ip, protocol, port, action, ipsetName, failAt) ==
    LET a == AddFiltering(st, ip, protocol, NilPort, port, FirewallRule_OUT, action,
                          ipsetName, failAt)
    IN  IF a.err THEN [st |-> a.st, rules |-> <<>>, err |-> TRUE]
        ELSE IF shouldSkipInvertedRule(protocol, port)
        THEN [st |-> a.st, rules |-> a.rule, err |-> FALSE]
        ELSE LET b == AddFiltering(a.st, ip, protocol, port, NilPort, FirewallRule_IN,
                                   action, ipsetName, failAt)
             IN  IF b.err THEN [st |-> b.st, rules |-> <<>>, err |-> TRUE]
                 ELSE [st |-> b.st, rules |-> a.rule \o b.rule, err |-> FALSE]

\* The identifier protoRuleToFirewallRule gives a rule that passes its validation,
\* None for a rule it rejects before computing one.
RuleIDOf(r) ==
    LET ip == ParseIP(r.PeerIP)
        protocol == convertToFirewallProtocol(r.Protocol)
        action == convertFirewallAction(r.Action)
        port == ParsePort(r.Port)
    IN  IF ip = NilIP \/ protocol = None \/ action = -1 \/ InvalidPort(r.Port)
        THEN None
        ELSE getRuleID(ip, protocol, DirectionInt(r.Direction), port, action, "")

\* protoRuleToFirewallRule: validation, reuse of an installed pair, else installation.
protoRuleToFirewallRule(st, r, ipsetName, failAt) ==
    LET ruleID == RuleIDOf(r)
        fail == [st |-> st, pairID |-> "", rulePair |-> <<>>, err |-> TRUE]
    IN  IF ruleID = None THEN fail
        ELSE IF ruleID \in DOMAIN st.rulesPairs
        THEN [st |-> st, pairID |-> ruleID, rulePair |-> st.rulesPairs[ruleID], err |-> FALSE]
        ELSE IF r.Direction \notin {FirewallRule_IN, FirewallRule_OUT} THEN fail
        ELSE LET res == IF r.Direction = FirewallRule_IN
                        THEN addInRules(st, ParseIP(r.PeerIP),
                                 convertToFirewallProtocol(r.Protocol), ParsePort(r.Port),
                                 convertFirewallAction(r.Action), ipsetName, failAt)
                        ELSE addOutRules(st, ParseIP(r.PeerIP),
                                 convertToFirewallProtocol(r.Protocol), ParsePort(r.Port),
                                 convertFirewallAction(r.Action), ipsetName, failAt)
             IN  IF res.err
                 THEN [st |-> res.st, pairID |-> "", rulePair |-> <<>>, err |-> TRUE]
                 ELSE [st |-> res.st, pairID |-> ruleID, rulePair |-> res.rules, err |-> FALSE]

\* rollBack: DeleteRule on every handle of newRulePairs.
rollBack(st, newRulePairs) == DeletePairs(st, newRulePairs, DOMAIN newRulePairs)

RECURSIVE InstallLoop(_, _, _, _)
\* for _, r := range rules, from position k: mint or look up the IP-set name,
\* translate the rule; on an error roll back and break, else record the pair in
\* rulesPairs and newRulePairs.
InstallLoop(st, rules, k, failAt) ==
    IF k > Len(rules) THEN st
    ELSE LET r == rules[k]
             selector == getRuleGroupingSelector(r)
             known == selector \in DOMAIN st.ipsetByRuleSelectors
             counter == IF known THEN st.ipsetCounter ELSE st.ipsetCounter + 1
             ipsetName == IF known THEN st.ipsetByRuleSelectors[selector]
                          ELSE IpsetName(counter)
             st1 == [st EXCEPT !.ipsetCounter = counter,
                               !.ipsetByRuleSelectors = MapPut(@, selector, ipsetName)]
             st2 == [st1 EXCEPT !.named = Append(@, [rule |-> r, ipsetName |-> ipsetName])]
             res == protoRuleToFirewallRule(st2, r, ipsetName, failAt)
         IN  IF res.err
             THEN [rollBack(res.st, res.st.newRulePairs) EXCEPT !.aborted = TRUE]
             ELSE IF Len(rules) > 0
             THEN InstallLoop(
                      [res.st EXCEPT !.rulesPairs = MapPut(@, res.pairID, res.rulePair),
                                     !.newRulePairs = MapPut(@, res.pairID, res.rulePair)],
                      rules, k + 1, failAt)
             ELSE InstallLoop(res.st, rules, k + 1, failAt)

\* After the install loop: DeleteRule on every pair of rulesPairs that newRulePairs
\* lacks, then rulesPairs = newRulePairs.
RemoveStale(st) ==
    LET stale == {id \in DOMAIN st.rulesPairs : id \notin DOMAIN st.newRulePairs}
        st1 == DeletePairs(st, st.rulesPairs, stale)
    IN  [st1 EXCEPT !.rulesPairs = st.newRulePairs]

\* The deferred firewall.Flush(): its error, flushErr, is logged and nothing else.
Flush(st, flushErr) ==
    [st EXCEPT !.flushCalls = @ + 1, !.events = Append(@, "Flush"),
               !.flushFailed = flushErr]

\* The call state ApplyFiltering starts from.
CallState(m) ==
    [rulesPairs |-> m.rulesPairs, ipsetCounter |-> m.ipsetCounter,
     fwRules |-> m.fwRules, nextHandle |-> m.nextHandle,
     newRulePairs |-> EmptyMap, ipsetByRuleSelectors |-> EmptyMap,
     addCalls |-> <<>>, delCalls |-> EmptyMap, flushCalls |-> 0,
     events |-> <<>>, addFailed |-> FALSE, aborted |-> FALSE, flushFailed |-> FALSE,
     named |-> <<>>]

\* ApplyFiltering with Flush called at the end of the function body instead of
\* deferred, and the rollback path returning before it.
ApplyFilteringRun_NoFlushAfterRollBack(m, networkMap, failAt, flushErr) ==
    IF ~m.firewall THEN CallState(m)
    ELSE LET st == RemoveStale(InstallLoop(CallState(m), EffectiveRules(networkMap), 1,
                                           failAt))
         IN  IF st.aborted THEN st ELSE Flush(st, flushErr)

\* DefaultManager.ApplyFiltering on manager and backend m: the call state it ends in.
\* Without a backend it returns at once.  The failAt-th AddFiltering call fails and,
\* when flushErr, so does Flush.
ApplyFilteringRun(m, networkMap, failAt, flushErr) ==
    IF ~m.firewall THEN CallState(m)
    ELSE Flush(RemoveStale(InstallLoop(CallState(m), EffectiveRules(networkMap), 1, failAt)),
               flushErr)

\* The same on a backend whose Flush succeeds.
ApplyFilteringFrom(m, networkMap, failAt) == ApplyFilteringRun(m, networkMap, failAt, FALSE)

(***************************************************************************)
(* Inputs                                                                  *)
(***************************************************************************)
\* Longest FirewallRules list given to a pure-function run.
MaxRules == 3

\* Longest FirewallRules list given to an ApplyFiltering call.
MaxApplyRules == 2

\* Most ApplyFiltering calls in a behaviour.
MaxCalls == 2

\* The AddFiltering call of an ApplyFiltering that may fail: 1..MaxFailAt, 0 for none.
MaxFailAt == 2

\* mgmProto.RemotePeerConfig, as far as the manager reads it.
Peer(allowedIps) == [AllowedIps |-> allowedIps]

\* mgmProto.NetworkMap, as far as the manager reads it (SshEnabled is
\* PeerConfig.SshConfig.SshEnabled, FALSE when either is nil).
NetworkMap(rules, isEmpty, remote, offline, ssh) ==
    [FirewallRules |-> rules, FirewallRulesIsEmpty |-> isEmpty,
     RemotePeers |-> remote, OfflinePeers |-> offline, SshEnabled |-> ssh]

\* The sequences over S of length at most n.
SeqUpTo(S, n) == UNION {[1..k -> S] : k \in 0..n}

\* Peer lists <<RemotePeers, OfflinePeers>>: two allowed IPs (one remote and one
\* offline peer), and three (a remote peer with two, an offline peer with one).
PeerLists ==
    {<< <<Peer(<<"10.0.0.1/32">>)>>, <<Peer(<<"10.0.0.2/32">>)>> >>,
     << <<Peer(<<"10.0.0.1/32", "10.0.0.2/32">>)>>, <<Peer(<<"10.0.0.3/32">>)>> >>}

\* Rules given to ApplyFiltering: two port-less TCP ACCEPT rules that cover the
\* network, a UDP rule with a port (it needs a companion rule), a DROP rule, and a
\* rule whose peer IP does not parse.
ApplyRuleSet ==
    {FirewallRule("10.0.0.1", FirewallRule_IN, FirewallRule_ACCEPT, FirewallRule_TCP, ""),
     FirewallRule("10.0.0.2", FirewallRule_IN, FirewallRule_ACCEPT, FirewallRule_TCP, ""),
     FirewallRule("10.0.0.1", FirewallRule_OUT, FirewallRule_ACCEPT, FirewallRule_UDP, "80"),
     FirewallRule("10.0.0.2", FirewallRule_OUT, FirewallRule_DROP, FirewallRule_ICMP, ""),
     FirewallRule("not-an-ip", FirewallRule_IN, FirewallRule_ACCEPT, FirewallRule_ICMP, "")}

\* The management service sets FirewallRulesIsEmpty only on an empty rule list; an
\* older one never sets it.
ApplyMaps ==
    {nm \in {NetworkMap(rules, isEmpty, pl[1], pl[2], ssh) :
                rules \in SeqUpTo(ApplyRuleSet, MaxApplyRules), isEmpty \in BOOLEAN,
                pl \in PeerLists, ssh \in BOOLEAN} :
        nm.FirewallRulesIsEmpty => nm.FirewallRules = <<>>}

(***************************************************************************)
(* The reconciler as a state machine: NewDefaultManager, then ApplyFiltering *)
(* calls with any network map and any backend failure.                     *)
(***************************************************************************)
NoCall ==
    [networkMap |-> NetworkMap(<<>>, TRUE, <<>>, <<>>, FALSE), rules |-> <<>>,
     preRulesPairs |-> EmptyMap, preFwRules |-> {}, preIpsetCounter |-> 0,
     preNextHandle |-> 0, newRulePairs |-> EmptyMap,
     addCalls |-> <<>>, delCalls |-> EmptyMap, flushCalls |-> 0, events |-> <<>>,
     addFailed |-> FALSE, aborted |-> FALSE, flushFailed |-> FALSE,
     repeated |-> FALSE, retried |-> FALSE, named |-> <<>>, mintedBefore |-> {}]

NoInput == [networkMap |-> NetworkMap(<<>>, TRUE, <<>>, <<>>, FALSE), perm |-> <<>>]

NoOutput == [done |-> FALSE]

\* sync.Mutex unlocked.
NoHolder == 0

\* No ApplyFiltering call runs concurrently with another.
NoGoroutines ==
    /\ mutex = NoHolder
    /\ goroutine = <<>>
    /\ trace = <<>>

\* NewDefaultManager(fm) over a backend that holds no rule; fm is FALSE for nil.
NewDefaultManager(fm) ==
    [firewall |-> fm, rulesPairs |-> EmptyMap, ipsetCounter |-> 0,
     fwRules |-> {}, nextHandle |-> 0]

\* The manager is constructed over a backend or over nil.
Init ==
    /\ \E fm \in BOOLEAN :
           /\ firewall = NewDefaultManager(fm).firewall
           /\ rulesPairs = NewDefaultManager(fm).rulesPairs
           /\ ipsetCounter = NewDefaultManager(fm).ipsetCounter
           /\ fwRules = NewDefaultManager(fm).fwRules
           /\ nextHandle = NewDefaultManager(fm).nextHandle
    /\ calls = 0
    /\ last = NoCall
    /\ input = NoInput
    /\ output = NoOutput
    /\ NoGoroutines

\* The manager and its backend, as ApplyFilteringFrom reads them.
Manager ==
    [firewall |-> firewall, rulesPairs |-> rulesPairs, ipsetCounter |-> ipsetCounter,
     fwRules |-> fwRules, nextHandle |-> nextHandle]

\* One ApplyFiltering(networkMap) call, the failAt-th AddFiltering call failing and,
\* when flushErr, Flush failing.  last.repeated: the call before it had the same
\* network map and no failed AddFiltering call; last.retried: it had the same network
\* map and a failed AddFiltering call.
ApplyFilteringCall(networkMap, failAt, flushErr) ==
    /\ calls < MaxCalls
    /\ \E st \in {ApplyFilteringRun(Manager, networkMap, failAt, flushErr)} :
           /\ rulesPairs' = st.rulesPairs
           /\ ipsetCounter' = st.ipsetCounter
           /\ fwRules' = st.fwRules
           /\ nextHandle' = st.nextHandle
           /\ last' = [networkMap |-> networkMap,
                       rules |-> EffectiveRules(networkMap),
                       preRulesPairs |-> rulesPairs, preFwRules |-> fwRules,
                       preIpsetCounter |-> ipsetCounter,
                       preNextHandle |-> nextHandle,
                       newRulePairs |-> st.newRulePairs,
                       addCalls |-> st.addCalls, delCalls |-> st.delCalls,
                       flushCalls |-> st.flushCalls, events |-> st.events,
                       addFailed |-> st.addFailed, aborted |-> st.aborted,
                       flushFailed |-> st.flushFailed,
                       repeated |-> (/\ calls > 0
                                     /\ networkMap = last.networkMap
                                     /\ ~last.addFailed),
                       retried |-> (/\ calls > 0
                                    /\ networkMap = last.networkMap
                                    /\ last.addFailed),
                       named |-> st.named,
                       mintedBefore |-> last.mintedBefore
                                            \cup {last.named[k].ipsetName :
                                                     k \in 1..Len(last.named)}]
    /\ calls' = calls + 1
    /\ UNCHANGED <<firewall, input, output, mutex, goroutine, trace>>

\* The call on a backend whose Flush succeeds.
ApplyFiltering(networkMap, failAt) == ApplyFilteringCall(networkMap, failAt, FALSE)

Next == \E networkMap \in ApplyMaps, failAt \in 0..MaxFailAt : ApplyFiltering(networkMap, failAt)

Spec == Init /\ [][Next]_vars

\* The network maps whose rules all pass the validation of protoRuleToFirewallRule.
ValidMaps ==
    {nm \in ApplyMaps :
        \A k \in 1..Len(nm.FirewallRules) : RuleIDOf(nm.FirewallRules[k]) # None}

\* The same calls, given well-formed network maps only: what is left of a property
\* once no rule is rejected.
NextValid == \E networkMap \in ValidMaps, failAt \in 0..MaxFailAt : ApplyFiltering(networkMap, failAt)

SpecValid == Init /\ [][NextValid]_vars

(***************************************************************************)
(* The reconciler over a backend whose Flush may fail too, given the rules *)
(* that reach both ways of an installation: a rule that needs one backend   *)
(* rule and a rule that needs a companion (as the SSH fallback rule does).  *)
(***************************************************************************)
BackendRuleSet ==
    {FirewallRule("10.0.0.1", FirewallRule_IN, FirewallRule_ACCEPT, FirewallRule_TCP, ""),
     FirewallRule("10.0.0.2", FirewallRule_OUT, FirewallRule_ACCEPT, FirewallRule_UDP, "80")}

\* Network maps of a network with three allowed IPs; the maps without rules come
\* with and without FirewallRulesIsEmpty and with SSH enabled and disabled.
BackendMaps ==
    {nm \in {NetworkMap(rules, isEmpty,
                        <<Peer(<<"10.0.0.1/32", "10.0.0.2/32">>)>>,
                        <<Peer(<<"10.0.0.3/32">>)>>, ssh) :
                rules \in SeqUpTo(BackendRuleSet, MaxApplyRules), isEmpty \in BOOLEAN,
                ssh \in BOOLEAN} :
        (nm.FirewallRulesIsEmpty \/ nm.SshEnabled) => nm.FirewallRules = <<>>}

NextBackend ==
    \E networkMap \in BackendMaps, failAt \in 0..MaxFailAt, flushErr \in BOOLEAN :
        ApplyFilteringCall(networkMap, failAt, flushErr)

SpecBackend == Init /\ [][NextBackend]_vars

(***************************************************************************)
(* The reconciler given the rules that tell the ways of an installation    *)
(* apart: with and without a port for each kind of protocol, in both       *)
(* directions.                                                             *)
(***************************************************************************)
\* The sub-lists of `rules` of at most n rules, in the order of `rules`.
SubLists(rules, n) ==
    {[k \in 1..Cardinality(I) |->
          rules[CHOOSE i \in I : Cardinality({j \in I : j < i}) = k - 1]] :
        I \in {J \in SUBSET (1..Len(rules)) : Cardinality(J) <= n}}

\* A TCP rule with a port (IN), a UDP rule with a port (OUT), an ICMP rule and an
\* ALL rule that carry a port, and a TCP rule without one.
CompanionRules ==
    <<FirewallRule("10.0.0.1", FirewallRule_IN, FirewallRule_ACCEPT, FirewallRule_TCP, "80"),
      FirewallRule("10.0.0.2", FirewallRule_OUT, FirewallRule_DROP, FirewallRule_UDP, "443"),
      FirewallRule("10.0.0.1", FirewallRule_OUT, FirewallRule_ACCEPT, FirewallRule_ICMP, "80"),
      FirewallRule("10.0.0.2", FirewallRule_IN, FirewallRule_ACCEPT, FirewallRule_ALL, "80"),
      FirewallRule("10.0.0.3", FirewallRule_IN, FirewallRule_DROP, FirewallRule_TCP, "")>>

\* Network maps of a network with three allowed IPs, from a management service
\* that sets FirewallRulesIsEmpty, SSH disabled.
CompanionMaps ==
    {NetworkMap(rules, rules = <<>>,
                <<Peer(<<"10.0.0.1/32", "10.0.0.2/32">>)>>, <<Peer(<<"10.0.0.3/32">>)>>,
                FALSE) :
        rules \in SubLists(CompanionRules, MaxApplyRules)}

NextCompanion ==
    \E networkMap \in CompanionMaps, failAt \in 0..MaxFailAt :
        ApplyFiltering(networkMap, failAt)

SpecCompanion == Init /\ [][NextCompanion]_vars

(***************************************************************************)
(* The reconciler given rules that differ from the SSH fallback rule in    *)
(* one field of the grouping selector each, SSH enabled: every call names  *)
(* the rules of the map and then the fallback rule.                        *)
(***************************************************************************)
\* A rule with the selector of the SSH fallback rule (IN, ACCEPT, TCP, port 22) and
\* another peer IP; rules that differ from it in the port, the direction, the
\* action and the protocol alone; third in the list, a rule whose peer IP does
\* not parse, with a selector of its own.
NamingRules ==
    <<FirewallRule("10.0.0.1", FirewallRule_IN, FirewallRule_ACCEPT, FirewallRule_TCP, "22"),
      FirewallRule("10.0.0.1", FirewallRule_IN, FirewallRule_ACCEPT, FirewallRule_TCP, "80"),
      FirewallRule("not-an-ip", FirewallRule_IN, FirewallRule_ACCEPT, FirewallRule_ICMP, ""),
      FirewallRule("10.0.0.3", FirewallRule_OUT, FirewallRule_ACCEPT, FirewallRule_TCP, "22"),
      FirewallRule("10.0.0.3", FirewallRule_IN, FirewallRule_DROP, FirewallRule_TCP, "22"),
      FirewallRule("10.0.0.3", FirewallRule_IN, FirewallRule_ACCEPT, FirewallRule_UDP, "22")>>

\* Network maps of a network with three allowed IPs, SSH enabled.
NamingMaps ==
    {NetworkMap(rules, rules = <<>>,
                <<Peer(<<"10.0.0.1/32", "10.0.0.2/32">>)>>, <<Peer(<<"10.0.0.3/32">>)>>,
                TRUE) :
        rules \in SubLists(NamingRules, MaxApplyRules)}

\* No AddFiltering call fails, or the first one does.
NamingFailAt == {0, 1}

NextNaming ==
    \E networkMap \in NamingMaps, failAt \in NamingFailAt :
        ApplyFiltering(networkMap, failAt)

SpecNaming == Init /\ [][NextNaming]_vars

(***************************************************************************)
(* squashAcceptRules and the rules ApplyFiltering adds to its result, run   *)
(* as a pure function of the network map.                                  *)
(***************************************************************************)
\* Rules given to the squasher: port-less ACCEPT rules of TCP and of ALL that cover
\* the two-address network, DROP rules and a rule with a port in both directions,
\* and a wildcard rule as the management service sends it.
SquashRuleSet ==
    {FirewallRule("10.0.0.1", FirewallRule_IN, FirewallRule_ACCEPT, FirewallRule_TCP, ""),
     FirewallRule("10.0.0.2", FirewallRule_IN, FirewallRule_ACCEPT, FirewallRule_TCP, ""),
     FirewallRule("10.0.0.1", FirewallRule_IN, FirewallRule_DROP, FirewallRule_TCP, ""),
     FirewallRule("10.0.0.1", FirewallRule_OUT, FirewallRule_DROP, FirewallRule_TCP, ""),
     FirewallRule("10.0.0.1", FirewallRule_OUT, FirewallRule_ACCEPT, FirewallRule_TCP, "80"),
     FirewallRule("10.0.0.1", FirewallRule_IN, FirewallRule_ACCEPT, FirewallRule_ALL, ""),
     FirewallRule("10.0.0.2", FirewallRule_IN, FirewallRule_ACCEPT, FirewallRule_ALL, ""),
     FirewallRule(WildcardIP, FirewallRule_OUT, FirewallRule_ACCEPT, FirewallRule_ALL, ""),
     FirewallRule("10.0.0.2", FirewallRule_OUT, FirewallRule_ACCEPT, FirewallRule_TCP, "")}

SquashMaps ==
    {nm \in {NetworkMap(rules, isEmpty, pl[1], pl[2], ssh) :
                rules \in SeqUpTo(SquashRuleSet, MaxRules), isEmpty \in BOOLEAN,
                pl \in PeerLists, ssh \in BOOLEAN} :
        nm.FirewallRulesIsEmpty => nm.FirewallRules = <<>>}

InitSquash ==
    /\ firewall = TRUE
    /\ rulesPairs = EmptyMap
    /\ ipsetCounter = 0
    /\ fwRules = {}
    /\ nextHandle = 0
    /\ calls = 0
    /\ last = NoCall
    /\ input \in {[networkMap |-> nm, perm |-> <<>>] : nm \in SquashMaps}
    /\ output = NoOutput
    /\ NoGoroutines

\* ApplyFiltering's first step on input.networkMap: squashAcceptRules, then the
\* injected rules.
RunSquash ==
    /\ ~output.done
    /\ \E sq \in {squashAcceptRules(input.networkMap)} :
           output' = [done |-> TRUE,
                      rules |-> sq.rules,
                      squashedProtocols |-> sq.squashedProtocols,
                      synthetic |-> SquashState(input.networkMap).synthetic,
                      effective |-> EffectiveRules(input.networkMap)]
    /\ UNCHANGED <<firewall, rulesPairs, ipsetCounter, fwRules, nextHandle, calls, last, input,
                 mutex, goroutine, trace>>

NextSquash == RunSquash

SpecSquash == InitSquash /\ [][NextSquash]_vars

(***************************************************************************)
(* ApplyFiltering on a network map and on the same map with its rule list  *)
(* permuted, each on a fresh manager over a backend that never fails.      *)
(***************************************************************************)
\* The permutations of 1..n.
RulePermutations(n) == {f \in [1..n -> 1..n] : \A i, j \in 1..n : f[i] = f[j] => i = j}

PermuteRules(rules, perm) == [k \in 1..Len(rules) |-> rules[perm[k]]]

\* Rules of one protocol and direction, so that every order of them meets the
\* squasher's bookkeeping: two ACCEPT rules that cover the network, a DROP rule, a
\* rule with a port.
PermRuleSet ==
    {FirewallRule("10.0.0.1", FirewallRule_IN, FirewallRule_ACCEPT, FirewallRule_TCP, ""),
     FirewallRule("10.0.0.2", FirewallRule_IN, FirewallRule_ACCEPT, FirewallRule_TCP, ""),
     FirewallRule("10.0.0.1", FirewallRule_IN, FirewallRule_DROP, FirewallRule_TCP, ""),
     FirewallRule("10.0.0.2", FirewallRule_OUT, FirewallRule_ACCEPT, FirewallRule_TCP, "443")}

PermInputs ==
    UNION {{[networkMap |-> NetworkMap(rules, FALSE, pl[1], pl[2], ssh), perm |-> perm] :
               pl \in PeerLists, ssh \in BOOLEAN, perm \in RulePermutations(Len(rules))} :
           rules \in SeqUpTo(PermRuleSet, MaxRules) \ {<<>>}}

InitPerm ==
    /\ firewall = TRUE
    /\ rulesPairs = EmptyMap
    /\ ipsetCounter = 0
    /\ fwRules = {}
    /\ nextHandle = 0
    /\ calls = 0
    /\ last = NoCall
    /\ input \in PermInputs
    /\ output = NoOutput
    /\ NoGoroutines

\* The network map with its rule list permuted by perm.
Permuted(networkMap, perm) ==
    [networkMap EXCEPT !.FirewallRules = PermuteRules(@, perm)]

\* ApplyFiltering(NM) and ApplyFiltering(NM') on two fresh managers.
RunPermuted ==
    /\ ~output.done
    /\ output' = [done |-> TRUE,
                  installed |-> DOMAIN ApplyFilteringFrom(NewDefaultManager(TRUE),
                                           input.networkMap, 0).rulesPairs,
                  installedPermuted |-> DOMAIN ApplyFilteringFrom(NewDefaultManager(TRUE),
                                           Permuted(input.networkMap, input.perm), 0).rulesPairs]
    /\ UNCHANGED <<firewall, rulesPairs, ipsetCounter, fwRules, nextHandle, calls, last, input,
                 mutex, goroutine, trace>>

NextPerm == RunPermuted

SpecPerm == InitPerm /\ [][NextPerm]_vars

(***************************************************************************)
(* ApplyFiltering called from two goroutines at once.  A call takes the    *)
(* mutex, then runs in steps on the manager's fields: one step per         *)
(* iteration of the install loop, one for the removal of stale pairs, one  *)
(* for the deferred Flush, and it releases the mutex last.                 *)
(***************************************************************************)
Goroutines == {1, 2}

\* A goroutine about to call ApplyFiltering(networkMap): its locals are not set yet.
NotStarted(networkMap, failAt) ==
    [pc |-> "start", networkMap |-> networkMap, failAt |-> failAt,
     rules |-> <<>>, k |-> 1, st |-> CallState(NewDefaultManager(TRUE))]

InitConcurrent ==
    /\ \E fm \in BOOLEAN :
           /\ firewall = NewDefaultManager(fm).firewall
           /\ rulesPairs = NewDefaultManager(fm).rulesPairs
           /\ ipsetCounter = NewDefaultManager(fm).ipsetCounter
           /\ fwRules = NewDefaultManager(fm).fwRules
           /\ nextHandle = NewDefaultManager(fm).nextHandle
    /\ calls = 0
    /\ last = NoCall
    /\ input = NoInput
    /\ output = NoOutput
    /\ mutex = NoHolder
    /\ \E args \in [Goroutines -> BackendMaps \X (0..MaxFailAt)] :
           goroutine = [g \in Goroutines |-> NotStarted(args[g][1], args[g][2])]
    /\ trace = <<>>

\* sync.Mutex with Lock returning although the mutex is held.
CanLock_NoMutex(m) == TRUE

\* sync.Mutex.Lock returns only when no goroutine holds the mutex.
CanLock(m) == m = NoHolder

\* d.mutex.Lock()
Lock(g) ==
    /\ goroutine[g].pc = "start"
    /\ CanLock(mutex)
    /\ mutex' = g
    /\ goroutine' = [goroutine EXCEPT ![g].pc = "locked"]
    /\ UNCHANGED <<firewall, rulesPairs, ipsetCounter, fwRules, nextHandle, calls, last,
                   input, output, trace>>

\* From the nil-backend check to the start of the install loop: without a backend
\* the call returns; else it computes the effective rules and makes its two maps.
Enter(g) ==
    /\ goroutine[g].pc = "locked"
    /\ \E rules \in {EffectiveRules(goroutine[g].networkMap)} :
           goroutine' =
               IF ~firewall THEN [goroutine EXCEPT ![g].pc = "unlock"]
               ELSE [goroutine EXCEPT ![g].rules = rules,
                                      ![g].k = 1,
                                      ![g].st = CallState(Manager),
                                      ![g].pc = IF rules = <<>> THEN "stale" ELSE "loop"]
    /\ UNCHANGED <<firewall, rulesPairs, ipsetCounter, fwRules, nextHandle, calls, last,
                   input, output, mutex, trace>>

\* The call state of a goroutine with the manager's and the backend's fields as
\* they are now.
Refresh(st) ==
    [st EXCEPT !.rulesPairs = rulesPairs, !.ipsetCounter = ipsetCounter,
               !.fwRules = fwRules, !.nextHandle = nextHandle]

\* The backend calls a step added to a call state's events.
NewEvents(before, after) == SubSeq(after.events, Len(before.events) + 1, Len(after.events))

\* A step of goroutine g took the call state from st0 to st1: the manager's and
\* the backend's fields are written back and the step is recorded.
Commit(g, st0, st1, pc) ==
    /\ rulesPairs' = st1.rulesPairs
    /\ ipsetCounter' = st1.ipsetCounter
    /\ fwRules' = st1.fwRules
    /\ nextHandle' = st1.nextHandle
    /\ goroutine' = [goroutine EXCEPT ![g].st = st1, ![g].pc = pc,
                                       ![g].k = IF goroutine[g].pc = "loop" THEN @ + 1 ELSE @]
    /\ trace' = Append(trace, [g |-> g, events |-> NewEvents(st0, st1)])
    /\ UNCHANGED <<firewall, calls, last, input, output, mutex>>

\* One iteration of the install loop, on rule k of the effective rules.
LoopStep(g) ==
    /\ goroutine[g].pc = "loop"
    /\ \E st0 \in {Refresh(goroutine[g].st)} :
       \E st1 \in {InstallLoop(st0, <<goroutine[g].rules[goroutine[g].k]>>, 1,
                                goroutine[g].failAt)} :
           Commit(g, st0, st1,
                  IF st1.aborted \/ goroutine[g].k + 1 > Len(goroutine[g].rules)
                  THEN "stale" ELSE "loop")

\* The loop over d.rulesPairs that deletes the stale pairs, and
\* d.rulesPairs = newRulePairs.
Stale(g) ==
    /\ goroutine[g].pc = "stale"
    /\ \E st0 \in {Refresh(goroutine[g].st)} :
           Commit(g, st0, RemoveStale(st0), "flush")

\* The deferred d.firewall.Flush().
FlushStep(g) ==
    /\ goroutine[g].pc = "flush"
    /\ \E st0 \in {Refresh(goroutine[g].st)} :
           Commit(g, st0, Flush(st0, FALSE), "unlock")

\* The deferred d.mutex.Unlock(): it runs last.
Unlock(g) ==
    /\ goroutine[g].pc = "unlock"
    /\ mutex' = NoHolder
    /\ goroutine' = [goroutine EXCEPT ![g].pc = "done"]
    /\ UNCHANGED <<firewall, rulesPairs, ipsetCounter, fwRules, nextHandle, calls, last,
                   input, output, trace>>

NextConcurrent ==
    \E g \in Goroutines :
        \/ Lock(g)
        \/ Enter(g)
        \/ LoopStep(g)
        \/ Stale(g)
        \/ FlushStep(g)
        \/ Unlock(g)

SpecConcurrent == InitConcurrent /\ [][NextConcurrent]_vars

(***************************************************************************)
(* Properties                                                              *)
(***************************************************************************)
\* The elements of a sequence.
Range(seq) == {seq[k] : k \in 1..Len(seq)}

\* Every backend handle stored in a RuleID -> handles map.
Handles(pairs) == UNION {Range(pairs[id]) : id \in DOMAIN pairs}

\* The RuleIDs of the rules of a list that pass validation.
RuleIDs(rules) == {RuleIDOf(r) : r \in Range(rules)} \ {None}

\* The SSH fallback rule.
SSHRule ==
    FirewallRule(WildcardIP, FirewallRule_IN, FirewallRule_ACCEPT, FirewallRule_TCP,
                 Itoa(DefaultSSHPort))

\* An ApplyFiltering call was made on a manager that has a backend.
CallMade == calls > 0 /\ firewall

\* C1: when an AddFiltering call fails during an ApplyFiltering call, no rule handle
\* that was in the backend before the call is passed to DeleteRule during it, and
\* every such rule is still in the backend when the call returns.
C1_FailureKeepsPreviousRules ==
    (CallMade /\ last.addFailed) =>
        \A h \in last.preFwRules : h \notin DOMAIN last.delCalls /\ h \in fwRules

\* C2: after an ApplyFiltering call in which an AddFiltering call failed, rulesPairs
\* equals rulesPairs from before the call.
C2_FailureRestoresInstalled ==
    (CallMade /\ last.addFailed) => rulesPairs = last.preRulesPairs

\* C3: between ApplyFiltering calls, every handle stored in rulesPairs refers to a
\* rule the backend accepted and that has not been deleted from the backend.
C3_InstalledHandlesAreInBackend ==
    Handles(rulesPairs) \subseteq fwRules

\* The AddFiltering calls of the last ApplyFiltering that carry rule r's peer IP,
\* protocol, action, direction and destination port: the primary call of r.
PrimaryCalls(r) ==
    {k \in 1..Len(last.addCalls) :
        /\ last.addCalls[k].ip = ParseIP(r.PeerIP)
        /\ last.addCalls[k].protocol = convertToFirewallProtocol(r.Protocol)
        /\ last.addCalls[k].action = convertFirewallAction(r.Action)
        /\ last.addCalls[k].direction = r.Direction
        /\ last.addCalls[k].sPort = NilPort
        /\ last.addCalls[k].dPort = ParsePort(r.Port)}

\* C4: on a backend whose calls all succeed, an effective rule whose RuleID is
\* already in rulesPairs is reused: no AddFiltering call and no DeleteRule call is
\* made for it and its handles are carried over unchanged; and a second
\* ApplyFiltering of the same network map makes no AddFiltering and no DeleteRule
\* call and leaves rulesPairs unchanged.
C4_InstalledRuleIsReused ==
    (CallMade /\ ~last.addFailed) =>
        /\ \A r \in Range(last.rules) :
              RuleIDOf(r) \in DOMAIN last.preRulesPairs =>
                  /\ PrimaryCalls(r) = {}
                  /\ Range(last.preRulesPairs[RuleIDOf(r)]) \cap DOMAIN last.delCalls = {}
                  /\ RuleIDOf(r) \in DOMAIN rulesPairs
                  /\ rulesPairs[RuleIDOf(r)] = last.preRulesPairs[RuleIDOf(r)]
        /\ last.repeated =>
              /\ last.addCalls = <<>>
              /\ last.delCalls = EmptyMap
              /\ rulesPairs = last.preRulesPairs

\* C5: after an ApplyFiltering call in which no backend call fails, the keys of
\* rulesPairs are exactly the RuleIDs of the effective rules of the network map,
\* every handle of a previously installed RuleID that is not among them was passed
\* to DeleteRule, and the rules in the backend are exactly the handles in rulesPairs.
C5_InstalledIsEffectiveSet ==
    (CallMade /\ ~last.addFailed) =>
        /\ DOMAIN rulesPairs = RuleIDs(last.rules)
        /\ \A id \in (DOMAIN last.preRulesPairs) \ RuleIDs(last.rules) :
              Range(last.preRulesPairs[id]) \subseteq DOMAIN last.delCalls
        /\ fwRules = Handles(rulesPairs)

\* C6: if a rule of the network map with protocol P and direction D has action DROP
\* or a port, squashAcceptRules emits no synthetic wildcard rule for P in D.
C6_DropOrPortInhibitsSquash ==
    output.done =>
        \A r \in Range(input.networkMap.FirewallRules) :
            (r.Action = FirewallRule_DROP \/ r.Port # "") =>
                \A w \in Range(output.synthetic) :
                    ~(w.Protocol = r.Protocol /\ w.Direction = r.Direction)

\* C7: every DROP rule of the network map is in the rule list squashAcceptRules
\* returns.
C7_DropRulesAreKept ==
    output.done =>
        \A r \in Range(input.networkMap.FirewallRules) :
            r.Action = FirewallRule_DROP => r \in Range(output.rules)

\* C8: ApplyFiltering of a network map and of the same map with its rule list
\* permuted leave the same set of RuleIDs in rulesPairs.
C8_InstalledIsOrderIndependent ==
    output.done => output.installed = output.installedPermuted

\* C9: if squashAcceptRules emits a wildcard ACCEPT rule for protocol P and
\* direction D, no port-less ACCEPT rule of the network map with protocol P,
\* direction D and a specific peer IP is in the rule list it returns.
C9_SquashedRulesAreRemoved ==
    output.done =>
        \A w \in Range(output.rules) :
            (w.PeerIP = WildcardIP /\ w.Action = FirewallRule_ACCEPT /\ w.Port = "") =>
                \A r \in Range(input.networkMap.FirewallRules) :
                    (/\ r.Protocol = w.Protocol
                     /\ r.Direction = w.Direction
                     /\ r.Action = FirewallRule_ACCEPT
                     /\ r.Port = ""
                     /\ r.PeerIP # WildcardIP) => r \notin Range(output.rules)

\* C10: if ALL is among the squashed protocols, every rule of the list ApplyFiltering
\* installs has the wildcard peer IP, and the SSH fallback rule is not in it, also
\* when SSH is enabled.
C10_AllSquashedOnlyWildcards ==
    (output.done /\ FirewallRule_ALL \in output.squashedProtocols) =>
        /\ \A r \in Range(output.effective) : r.PeerIP = WildcardIP
        /\ SSHRule \notin Range(output.effective)

\* C10 witness: ALL was squashed for a network map that enables SSH and holds a
\* rule for a specific peer.
C10_Witness ==
    /\ output.done
    /\ FirewallRule_ALL \in output.squashedProtocols
    /\ input.networkMap.SshEnabled
    /\ \E r \in Range(input.networkMap.FirewallRules) : r.PeerIP # WildcardIP

\* C11: a rule that fails the validation of protoRuleToFirewallRule is logged and
\* skipped: the install loop is rolled back and broken off only when an AddFiltering
\* call failed, and when none failed every effective rule that passes validation is
\* in rulesPairs after the call.
C11_InvalidRuleIsSkipped ==
    CallMade =>
        /\ last.aborted <=> last.addFailed
        /\ ~last.addFailed => RuleIDs(last.rules) \subseteq DOMAIN rulesPairs

\* C12: after every ApplyFiltering call, every RuleID in rulesPairs maps to at least
\* one handle the backend handed out, and no handle is stored under two RuleIDs.
C12_PairsAreNonEmptyAndDisjoint ==
    CallMade =>
        /\ \A id \in DOMAIN rulesPairs :
              /\ Len(rulesPairs[id]) >= 1
              /\ Range(rulesPairs[id]) \subseteq 1..nextHandle
        /\ \A id1, id2 \in DOMAIN rulesPairs :
              id1 # id2 => Range(rulesPairs[id1]) \cap Range(rulesPairs[id2]) = {}

\* C12 witness: a call that reused an installed pair left two or more RuleIDs in
\* rulesPairs, one of them with the two handles of a rule and its companion.
C12_Witness ==
    /\ CallMade
    /\ Cardinality(DOMAIN rulesPairs) >= 2
    /\ \E id \in DOMAIN rulesPairs : Len(rulesPairs[id]) = 2
    /\ \E id \in DOMAIN rulesPairs : id \in DOMAIN last.preRulesPairs

\* The two allow-all rules for a management service that sends no rules.
LegacyRules ==
    <<FirewallRule(WildcardIP, FirewallRule_IN, FirewallRule_ACCEPT, FirewallRule_ALL, ""),
      FirewallRule(WildcardIP, FirewallRule_OUT, FirewallRule_ACCEPT, FirewallRule_ALL, "")>>

\* The rule list ends with the two allow-all rules.
LegacyAppended(rules) ==
    /\ Len(rules) >= 2
    /\ SubSeq(rules, Len(rules) - 1, Len(rules)) = LegacyRules

\* C14: ApplyFiltering appends the two allow-all rules exactly when the rule list of
\* the network map is empty and FirewallRulesIsEmpty is false; with an empty rule
\* list, FirewallRulesIsEmpty true and SSH disabled, rulesPairs is empty after the
\* call and every handle installed before it was passed to DeleteRule and has left
\* the backend.
C14_LegacyRulesOnlyForOldManagement ==
    CallMade =>
        /\ LegacyAppended(last.rules) <=>
               (/\ last.networkMap.FirewallRules = <<>>
                /\ ~last.networkMap.FirewallRulesIsEmpty)
        /\ (/\ last.networkMap.FirewallRules = <<>>
            /\ last.networkMap.FirewallRulesIsEmpty
            /\ ~last.networkMap.SshEnabled) =>
               /\ rulesPairs = EmptyMap
               /\ Handles(last.preRulesPairs) \subseteq DOMAIN last.delCalls
               /\ Handles(last.preRulesPairs) \cap fwRules = {}

\* C14 witness: an empty rule list with FirewallRulesIsEmpty set and SSH disabled
\* was applied to a manager that had rules installed.
C14_Witness ==
    /\ CallMade
    /\ last.networkMap.FirewallRules = <<>>
    /\ last.networkMap.FirewallRulesIsEmpty
    /\ ~last.networkMap.SshEnabled
    /\ Handles(last.preRulesPairs) \cap last.preFwRules # {}

\* C16: in every ApplyFiltering call on a manager with a backend, Flush is called
\* exactly once and it is the last backend call, whether the install loop was rolled
\* back or not, and when Flush fails rulesPairs is still the map the call built.
C16_FlushOnceAtTheEnd ==
    CallMade =>
        /\ last.flushCalls = 1
        /\ Cardinality({k \in 1..Len(last.events) : last.events[k] = "Flush"}) = 1
        /\ last.events[Len(last.events)] = "Flush"
        /\ last.flushFailed => rulesPairs = last.newRulePairs

\* C16 witness: a call that made AddFiltering and DeleteRule calls and was rolled
\* back, and whose Flush failed.
C16_Witness ==
    /\ CallMade
    /\ last.aborted
    /\ last.flushFailed
    /\ \E k \in 1..Len(last.events) : last.events[k] = "DeleteRule"
    /\ \E k \in 1..Len(last.events) : last.events[k] = "AddFiltering"

\* The SSH fallback rule stands in the effective rules right after the rules
\* squashAcceptRules returned.
SSHAppended(networkMap, rules) ==
    LET n == Len(squashAcceptRules(networkMap).rules)
    IN  Len(rules) > n /\ rules[n + 1] = SSHRule

\* C13: ApplyFiltering appends the SSH fallback rule to the effective rules exactly
\* when SSH is enabled and neither ALL nor TCP is a squashed protocol; and when SSH
\* is enabled, the network map has no TCP and no ALL rule and no AddFiltering call
\* fails, that rule is in rulesPairs after the call.
C13_SSHFallbackRule ==
    CallMade =>
        /\ SSHAppended(last.networkMap, last.rules) <=>
               (/\ last.networkMap.SshEnabled
                /\ FirewallRule_ALL \notin squashAcceptRules(last.networkMap).squashedProtocols
                /\ FirewallRule_TCP \notin squashAcceptRules(last.networkMap).squashedProtocols)
        /\ (/\ last.networkMap.SshEnabled
            /\ \A r \in Range(last.networkMap.FirewallRules) :
                   r.Protocol \notin {FirewallRule_TCP, FirewallRule_ALL}
            /\ ~last.addFailed) => RuleIDOf(SSHRule) \in DOMAIN rulesPairs

\* C17: when an AddFiltering call fails during an ApplyFiltering call, every handle
\* the backend handed out during that call was passed to DeleteRule and none of
\* them is left in the backend when the call returns.
C17_RollBackDeletesNewHandles ==
    (CallMade /\ last.addFailed) =>
        \A h \in (last.preNextHandle + 1)..nextHandle :
            h \in DOMAIN last.delCalls /\ h \notin fwRules

\* C18: when an ApplyFiltering call in which no AddFiltering call fails follows a
\* call with the same network map in which one failed, every effective rule of the
\* network map is in rulesPairs with handles that are in the backend.
C18_RetryConverges ==
    (CallMade /\ last.retried /\ ~last.addFailed) =>
        \A id \in RuleIDs(last.rules) :
            /\ id \in DOMAIN rulesPairs
            /\ Range(rulesPairs[id]) \subseteq fwRules

\* Rule r is covered by rule w: a port-less wildcard ACCEPT rule of r's direction
\* and of r's protocol or of ALL.
Covers(w, r) ==
    /\ w.PeerIP = WildcardIP
    /\ w.Action = FirewallRule_ACCEPT
    /\ w.Port = ""
    /\ w.Direction = r.Direction
    /\ w.Protocol \in {r.Protocol, FirewallRule_ALL}

\* C19: every rule of the network map that is not in the rule list squashAcceptRules
\* returns is a port-less ACCEPT rule covered by a wildcard ACCEPT rule of that list
\* with the same direction and the same protocol or ALL.
C19_DroppedRulesAreCovered ==
    output.done =>
        \A r \in Range(input.networkMap.FirewallRules) :
            r \notin Range(output.rules) =>
                /\ r.Port = ""
                /\ r.Action = FirewallRule_ACCEPT
                /\ \E w \in Range(output.rules) : Covers(w, r)

\* The rules of a list with protocol P and direction D.
RulesFor(rules, P, D) == {r \in Range(rules) : r.Protocol = P /\ r.Direction = D}

\* The network map's rules for (P, D) are port-less ACCEPT rules for specific peers.
PerPeerAccepts(networkMap, P, D) ==
    /\ RulesFor(networkMap.FirewallRules, P, D) # {}
    /\ \A r \in RulesFor(networkMap.FirewallRules, P, D) :
          r.Action = FirewallRule_ACCEPT /\ r.Port = "" /\ r.PeerIP # WildcardIP

\* The number of distinct peer IPs the network map's rules for (P, D) name.
NamedIPs(networkMap, P, D) ==
    Cardinality({r.PeerIP : r \in RulesFor(networkMap.FirewallRules, P, D)})

\* The number of distinct peer IPs squashAcceptRules recorded for P in direction D.
RecordedIPs(networkMap, P, D) ==
    LET matches == IF D = FirewallRule_IN THEN SquashState(networkMap).in
                   ELSE SquashState(networkMap).out
    IN  IF P \in DOMAIN matches THEN Cardinality(DOMAIN matches[P]) ELSE 0

\* C20, first part: a synthetic wildcard rule for (P, D) is emitted only when the
\* number of peer IPs recorded for P in D is totalIPs and at least 2.
C20_SyntheticOnlyWhenCovered ==
    \A w \in Range(output.synthetic) :
        /\ RecordedIPs(input.networkMap, w.Protocol, w.Direction) = TotalIPs(input.networkMap)
        /\ RecordedIPs(input.networkMap, w.Protocol, w.Direction) >= 2

\* C20, second part: rules for (P, D) that are port-less ACCEPT rules naming
\* totalIPs >= 2 peer IPs leave exactly one rule for (P, D) to install, its wildcard.
C20_CoveredInstallsWildcardOnly ==
    \A P \in Range(protocolOrders), D \in {FirewallRule_IN, FirewallRule_OUT} :
        (/\ PerPeerAccepts(input.networkMap, P, D)
         /\ NamedIPs(input.networkMap, P, D) = TotalIPs(input.networkMap)
         /\ TotalIPs(input.networkMap) >= 2) =>
            RulesFor(output.effective, P, D) =
                {FirewallRule(WildcardIP, D, FirewallRule_ACCEPT, P, "")}

\* C20, third part: rules for (P, D) that are port-less ACCEPT rules naming fewer
\* than totalIPs peer IPs, or in a network with one IP, get no synthetic wildcard
\* and are all left to install.
C20_UncoveredKeepsPerPeerRules ==
    \A P \in Range(protocolOrders), D \in {FirewallRule_IN, FirewallRule_OUT} :
        (/\ PerPeerAccepts(input.networkMap, P, D)
         /\ \/ NamedIPs(input.networkMap, P, D) < TotalIPs(input.networkMap)
            \/ TotalIPs(input.networkMap) < 2) =>
            /\ RulesFor(output.synthetic, P, D) = {}
            /\ RulesFor(input.networkMap.FirewallRules, P, D)
                   \subseteq Range(output.effective)

\* C20: squashAcceptRules emits a synthetic wildcard rule for (P, D) only when the
\* peer IPs recorded for P in D number totalIPs >= 2; rules for (P, D) that are
\* port-less ACCEPT rules naming all totalIPs >= 2 peer IPs are installed as exactly
\* one rule, the wildcard; with fewer IPs named, or one IP in the network, no
\* synthetic wildcard is emitted and the per-peer rules are installed.
C20_SquashOnlyWhenAllPeersCovered ==
    output.done =>
        /\ C20_SyntheticOnlyWhenCovered
        /\ C20_CoveredInstallsWildcardOnly
        /\ C20_UncoveredKeepsPerPeerRules

\* The manager and backend fields after ApplyFiltering calls of goroutine a and then
\* of goroutine b, each run alone on a manager constructed as NewDefaultManager.
SerialOrder(a, b) ==
    LET s1 == ApplyFilteringFrom(NewDefaultManager(firewall), goroutine[a].networkMap,
                                 goroutine[a].failAt)
        m1 == [firewall |-> firewall, rulesPairs |-> s1.rulesPairs,
               ipsetCounter |-> s1.ipsetCounter, fwRules |-> s1.fwRules,
               nextHandle |-> s1.nextHandle]
        s2 == ApplyFilteringFrom(m1, goroutine[b].networkMap, goroutine[b].failAt)
    IN  <<s2.rulesPairs, s2.ipsetCounter, s2.fwRules, s2.nextHandle>>

\* The positions between Lock and Unlock.
InCall == {"locked", "loop", "stale", "flush", "unlock"}

\* C15: two ApplyFiltering calls issued concurrently never overlap: a goroutine is
\* inside the call only while it holds the mutex, the steps of one call on the
\* manager and the backend (its AddFiltering, DeleteRule and Flush calls, its
\* updates of rulesPairs and ipsetCounter) all come before the steps of the other,
\* and when both have returned the state is that of the two calls run one after
\* the other in one of the two orders.
C15_ConcurrentCallsAreSerialised ==
    /\ \A g \in DOMAIN goroutine : goroutine[g].pc \in InCall => mutex = g
    /\ \A i, j, k \in 1..Len(trace) :
          (i < j /\ j < k /\ trace[i].g = trace[k].g) => trace[j].g = trace[i].g
    /\ (DOMAIN goroutine # {} /\ \A g \in DOMAIN goroutine : goroutine[g].pc = "done") =>
          <<rulesPairs, ipsetCounter, fwRules, nextHandle>>
              \in {SerialOrder(1, 2), SerialOrder(2, 1)}

\* C15 witness: both calls have returned, each after install steps with backend
\* calls, and the two serial orders would not have given the same state.
C15_Witness ==
    /\ DOMAIN goroutine # {}
    /\ \A g \in DOMAIN goroutine :
          /\ goroutine[g].pc = "done"
          /\ \E k \in 1..Len(trace) : trace[k].g = g /\ trace[k].events # <<>>
    /\ SerialOrder(1, 2) # SerialOrder(2, 1)

\* The direction opposite to a rule's.
Opposite(direction) ==
    IF direction = FirewallRule_IN THEN FirewallRule_OUT ELSE FirewallRule_IN

\* The rules the inverted-rule policy gives a companion: the protocol is
\* TCP or UDP and the rule has a port.
NeedsCompanion(r) ==
    r.Protocol \in {FirewallRule_TCP, FirewallRule_UDP} /\ r.Port # ""

\* The AddFiltering calls the installation of rule r, the k-th effective rule, is
\* to make: the primary and, when r needs one, the companion.
CallsFor(r, k) ==
    LET primary == [ip |-> ParseIP(r.PeerIP),
                    protocol |-> convertToFirewallProtocol(r.Protocol),
                    sPort |-> NilPort, dPort |-> ParsePort(r.Port),
                    direction |-> r.Direction,
                    action |-> convertFirewallAction(r.Action),
                    rule |-> k, kind |-> "primary"]
        companion == [primary EXCEPT !.sPort = ParsePort(r.Port), !.dPort = NilPort,
                                     !.direction = Opposite(r.Direction),
                                     !.kind = "companion"]
    IN  IF NeedsCompanion(r) THEN <<primary, companion>> ELSE <<primary>>

\* The k-th effective rule of the last call is new: its RuleID was not in rulesPairs
\* when the call started and no earlier rule of the list has it.
IsNewRule(k) ==
    /\ RuleIDOf(last.rules[k]) \notin DOMAIN last.preRulesPairs
    /\ \A j \in 1..(k - 1) : RuleIDOf(last.rules[j]) # RuleIDOf(last.rules[k])

RECURSIVE ExpectedCalls(_)
\* The calls for the new rules among the effective rules k, k+1, ... of the last
\* call, in the order of the rules.
ExpectedCalls(k) ==
    IF k > Len(last.rules) THEN <<>>
    ELSE (IF IsNewRule(k) THEN CallsFor(last.rules[k], k) ELSE <<>>) \o ExpectedCalls(k + 1)

\* The arguments of the k-th AddFiltering call of the last ApplyFiltering, without
\* the IP-set name.
CallShape(c) ==
    [ip |-> c.ip, protocol |-> c.protocol, sPort |-> c.sPort, dPort |-> c.dPort,
     direction |-> c.direction, action |-> c.action]

\* C21: the AddFiltering calls of an ApplyFiltering call are, rule by rule in the
\* order of the effective rules, those of its new rules: for a TCP or UDP rule with
\* a port P the primary (the rule's direction, no source port, destination port P)
\* and then the companion (the opposite direction, source port P, no destination
\* port), for an ALL or ICMP rule or a rule without a port the primary alone; the
\* two calls of a rule carry the same peer IP, protocol, action and IP-set name.
\* The calls end with the first one the backend refuses (step 6 of the reconciler
\* breaks out of the loop); when no rule is refused they are all made.
C21_PrimaryThenCompanion ==
    CallMade =>
        LET expected == ExpectedCalls(1)
            made == last.addCalls
        IN  /\ Len(made) <= Len(expected)
            /\ ~last.aborted => Len(made) = Len(expected)
            /\ \A k \in 1..Len(made) :
                  /\ CallShape(made[k]) = CallShape(expected[k])
                  /\ expected[k].kind = "companion" =>
                        /\ made[k].ipsetName = made[k - 1].ipsetName
                        /\ made[k].ip = made[k - 1].ip
                        /\ made[k].protocol = made[k - 1].protocol
                        /\ made[k].action = made[k - 1].action
                  /\ ~made[k].ok => k = Len(made)

\* C21 witness: a call in which no backend call fails installs, after a call that
\* installed another rule, a TCP or UDP rule with a port by two calls and an ALL or
\* ICMP rule with a port by one.
C21_Witness ==
    /\ CallMade /\ calls = 2 /\ ~last.addFailed
    /\ last.preRulesPairs # EmptyMap
    /\ Len(last.addCalls) = 3
    /\ \E i, j \in 1..Len(last.rules) :
          /\ IsNewRule(i) /\ NeedsCompanion(last.rules[i])
          /\ IsNewRule(j)
          /\ last.rules[j].Protocol \in {FirewallRule_ALL, FirewallRule_ICMP}
          /\ last.rules[j].Port # ""

\* The grouping selector of a rule: its direction, action, protocol and port.
SelectorFields(r) == <<r.Direction, r.Action, r.Protocol, r.Port>>

\* The selectors of the rules the last call processed.
ProcessedSelectors == {SelectorFields(last.named[k].rule) : k \in 1..Len(last.named)}

\* The IP-set names the last call gave its rules.
GivenNames == {last.named[k].ipsetName : k \in 1..Len(last.named)}

\* C22: the rules an ApplyFiltering call processes are the effective rules in
\* order, up to the one that ends the loop; two of them are given the same IP-set
\* name exactly when they have the same direction, action, protocol and port;
\* ipsetCounter ends the call greater by the number of distinct selectors
\* processed, whether the call was rolled back or not, and is never smaller after a
\* call than before it; and no name given in the call was given in an earlier call.
C22_IpsetNaming ==
    /\ calls > 0 => ipsetCounter >= last.preIpsetCounter
    /\ CallMade =>
          /\ Len(last.named) <= Len(last.rules)
          /\ ~last.aborted => Len(last.named) = Len(last.rules)
          /\ \A k \in 1..Len(last.named) : last.named[k].rule = last.rules[k]
          /\ \A i, j \in 1..Len(last.named) :
                (SelectorFields(last.named[i].rule) = SelectorFields(last.named[j].rule))
                    <=> (last.named[i].ipsetName = last.named[j].ipsetName)
          /\ ipsetCounter = last.preIpsetCounter + Cardinality(ProcessedSelectors)
          /\ GivenNames \cap last.mintedBefore = {}

\* C22 witness: after a call that was rolled back on a failed AddFiltering call and
\* had minted a name, the same network map is applied in full: its first and its
\* third rule share a selector, the second differs from them in the port alone.
C22_Witness ==
    /\ CallMade /\ last.retried /\ ~last.aborted
    /\ last.mintedBefore # {}
    /\ Len(last.named) = 3
    /\ SelectorFields(last.named[1].rule) = SelectorFields(last.named[3].rule)
    /\ last.named[1].ipsetName = last.named[3].ipsetName
    /\ last.named[2].rule.Port # last.named[1].rule.Port
    /\ last.named[2].rule.Direction = last.named[1].rule.Direction
    /\ last.named[2].rule.Action = last.named[1].rule.Action
    /\ last.named[2].rule.Protocol = last.named[1].rule.Protocol
    /\ last.named[2].ipsetName # last.named[1].ipsetName

====
